---- MODULE Spec2Model ----
(***************************************************************************)
(* The menu / order tools of upswing_hotel_agent.py: check_menu and        *)
(* place_order over the MongoDB collections "menu" and "orders".           *)
(*                                                                         *)
(* Lower-casing and regular-expression matching are computed character by  *)
(* character on Chars[t], the characters of the text t.  The patterns      *)
(* handed to $regex are built from literal characters and the              *)
(* metacharacter "." (any character); that is the fragment of the regular  *)
(* expression language RegexCharMatch implements.                          *)
(*                                                                         *)
(* Every store operation (find, find_one, update_one, insert_one) is one   *)
(* atomic step; the Python between two store operations is local to the    *)
(* call and belongs to the step of the store operation before it.          *)
(* An order's timestamp (datetime.now()) is read by nothing and is left    *)
(* out of the order document.                                              *)
(***************************************************************************)
EXTENDS Integers, Sequences, FiniteSets, TLC

VARIABLES menu, orders, call, calls, startOrders

vars == <<menu, orders, call, calls, startOrders>>

----------------------------------------------------------------------------
(* Bounds *)

\* Number of sessions calling the tools concurrently in Spec and SpecFail.
NumProcs == 2
\* Total number of tool calls started in Spec and SpecFail.
MaxCalls == 2
\* Number of concurrent place_order calls in SpecRace.
NumRacers == 3
\* Number of orders placed one after the other before the concurrent ones in SpecRace.
MaxWarmup == 5

Procs == 1..NumProcs
Racers == 1..NumRacers

----------------------------------------------------------------------------
(* Texts *)

\* The characters of every text of the model.
Chars ==
  ("" :> <<>>) @@
  ("Club Sandwich" :> <<"C","l","u","b"," ","S","a","n","d","w","i","c","h">>) @@
  ("Vegan Buddha Bowl" :> <<"V","e","g","a","n"," ","B","u","d","d","h","a"," ","B","o","w","l">>) @@
  ("Caesar Salad" :> <<"C","a","e","s","a","r"," ","S","a","l","a","d">>) @@
  ("Fruit Platter" :> <<"F","r","u","i","t"," ","P","l","a","t","t","e","r">>) @@
  ("contains_gluten" :> <<"c","o","n","t","a","i","n","s","_","g","l","u","t","e","n">>) @@
  ("meat" :> <<"m","e","a","t">>) @@
  ("vegan" :> <<"v","e","g","a","n">>) @@
  ("gluten_free" :> <<"g","l","u","t","e","n","_","f","r","e","e">>) @@
  ("nuts" :> <<"n","u","t","s">>) @@
  ("vegetarian" :> <<"v","e","g","e","t","a","r","i","a","n">>) @@
  ("contains_dairy" :> <<"c","o","n","t","a","i","n","s","_","d","a","i","r","y">>) @@
  ("menu" :> <<"m","e","n","u">>) @@
  ("Menu" :> <<"M","e","n","u">>) @@
  ("salad" :> <<"s","a","l","a","d">>) @@
  ("GLUTEN" :> <<"G","L","U","T","E","N">>) @@
  ("Pizza" :> <<"P","i","z","z","a">>) @@
  ("." :> <<".">>) @@
  ("fruit platter" :> <<"f","r","u","i","t"," ","p","l","a","t","t","e","r">>) @@
  ("Fruit" :> <<"F","r","u","i","t">>) @@
  ("Fruit.Platter" :> <<"F","r","u","i","t",".","P","l","a","t","t","e","r">>)

UpperLetters == <<"A","B","C","D","E","F","G","H","I","J","K","L","M","N","O","P","Q","R","S","T","U","V","W","X","Y","Z">>
LowerLetters == <<"a","b","c","d","e","f","g","h","i","j","k","l","m","n","o","p","q","r","s","t","u","v","w","x","y","z">>

\* One character lower-cased (str.lower(), and the folding of $options "i").
LowerChar(c) ==
  IF \E i \in 1..Len(UpperLetters) : UpperLetters[i] = c
  THEN LowerLetters[CHOOSE i \in 1..Len(UpperLetters) : UpperLetters[i] = c]
  ELSE c

\* query.lower()
LowerStr(s) == [i \in 1..Len(s) |-> LowerChar(s[i])]

\* One pattern character against one text character under $options "i":
\* "." matches any character, any other character matches itself, case folded.
RegexCharMatch(p, c) == p = "." \/ LowerChar(p) = LowerChar(c)

\* The pattern matches the text from position `at` on, character by character.
RegexMatchAt(pattern, text, at) ==
  /\ at + Len(pattern) - 1 <= Len(text)
  /\ \A i \in 1..Len(pattern) : RegexCharMatch(pattern[i], text[at + i - 1])

\* {"$regex": pattern, "$options": "i"}: the pattern matches somewhere in the text.
RegexSearch(pattern, text) ==
  \E at \in 1..(Len(text) + 1) : RegexMatchAt(pattern, text, at)

\* {"$regex": "^" + pattern + "$", "$options": "i"}: the pattern matches the whole text.
RegexFullMatch(pattern, text) ==
  Len(pattern) = Len(text) /\ RegexMatchAt(pattern, text, 1)

----------------------------------------------------------------------------
(* The collections *)

\* The documents insert_many puts into the menu collection, in insertion order;
\* a document's _id is its position.
SeedMenu ==
  << [item |-> "Club Sandwich", price |-> 15, tags |-> <<"contains_gluten", "meat">>, stock |-> 10],
     [item |-> "Vegan Buddha Bowl", price |-> 18, tags |-> <<"vegan", "gluten_free", "nuts">>, stock |-> 5],
     [item |-> "Caesar Salad", price |-> 12, tags |-> <<"vegetarian", "contains_dairy">>, stock |-> 0],
     [item |-> "Fruit Platter", price |-> 10, tags |-> <<"vegan", "gluten_free">>, stock |-> 20] >>

Ids == 1..Len(SeedMenu)

\* The order document place_order builds from the item it read.
NewOrder(item) ==
  [item |-> item.item, price |-> item.price, status |-> "kitchen_preparing"]

\* The orders collection is not dropped at start-up: it holds what earlier runs left.
StoredOrders == { <<>>, <<NewOrder(SeedMenu[1])>> }

----------------------------------------------------------------------------
(* check_menu *)

\* The $or criteria: the item name or one of the tags matches the query.
MatchesCriteria(doc, query) ==
  \/ RegexSearch(Chars[query], Chars[doc.item])
  \/ \E t \in 1..Len(doc.tags) : RegexSearch(Chars[query], Chars[doc.tags[t]])

\* Whether check_menu fetches everything: the query is empty or is "menu".
IsGeneric(query) == query = "" \/ LowerStr(Chars[query]) = Chars["menu"]

\* The ids the cursor yields, in collection order.
FindIds(m, query) ==
  IF IsGeneric(query) THEN {i \in Ids : TRUE}
  ELSE {i \in Ids : MatchesCriteria(m[i], query)}

RECURSIVE SeqOfSet(_, _)
\* The members of a set of ids in increasing order, from `from` on.
SeqOfSet(S, from) ==
  IF from > Len(SeedMenu) THEN <<>>
  ELSE (IF from \in S THEN <<from>> ELSE <<>>) \o SeqOfSet(S, from + 1)

\* Mutant of StatusOf: the comparison is stock >= 0.
StatusOfNotNegative(doc) ==
  IF doc.stock >= 0 THEN <<"Available", doc.price>> ELSE <<"OUT OF STOCK">>

\* The status text of a document.
StatusOf(doc) ==
  IF doc.stock > 0 THEN <<"Available", doc.price>> ELSE <<"OUT OF STOCK">>

\* One line of the response.
LineOf(doc) == [item |-> doc.item, status |-> StatusOf(doc), tags |-> doc.tags]

\* What check_menu returns.
CheckMenuResponse(m, query) ==
  LET ids == SeqOfSet(FindIds(m, query), 1)
      response == [k \in 1..Len(ids) |-> LineOf(m[ids[k]])]
  IN IF response = <<>>
     THEN [kind |-> "text", text |-> "No matching items found on the menu."]
     ELSE [kind |-> "lines", lines |-> response]

----------------------------------------------------------------------------
(* place_order *)

NoItem == [id |-> 0]

\* find_one: the first document whose name the anchored pattern matches, or None.
FindOne(m, item_name) ==
  LET hits == {i \in Ids : RegexFullMatch(Chars[item_name], Chars[m[i].item])}
  IN IF hits = {} THEN NoItem
     ELSE LET i == CHOOSE h \in hits : \A g \in hits : h <= g
          IN [id |-> i, item |-> m[i].item, price |-> m[i].price, stock |-> m[i].stock]

\* Mutant of OutOfStock: the comparison is stock < 0.
OutOfStockStrict(item) == item.stock < 0

\* The stock check on the item read: item['stock'] <= 0.
OutOfStock(item) == item.stock <= 0

\* Mutant of IncStock: the increment is -2.
IncStockByTwo(m, id) == [m EXCEPT ![id].stock = @ - 2]

\* update_one({"_id": id}, {"$inc": {"stock": -1}})
IncStock(m, id) == [m EXCEPT ![id].stock = @ - 1]

\* Mutant of InsertOne: the order is inserted twice.
InsertOneTwice(o, order) == Append(Append(o, order), order)

\* insert_one(order)
InsertOne(o, order) == Append(o, order)

NotOnMenuMsg(item_name) == [kind |-> "not_on_menu", prefix |-> "Error:", name |-> item_name]
OutOfStockMsg(item) == [kind |-> "out_of_stock", prefix |-> "Sorry,", name |-> item.item]
\* Mutant of SuccessMsg: the text begins with "Ordered".
SuccessMsgNoPrefix(item) == [kind |-> "success", prefix |-> "Ordered", name |-> item.item]

SuccessMsg(item) == [kind |-> "success", prefix |-> "SUCCESS:", name |-> item.item]
Raised == [kind |-> "raised"]

----------------------------------------------------------------------------
(* Calls *)

NoDelta == [i \in Ids |-> 0]

\* A session with no call made yet.
Idle ==
  [pc |-> "idle", op |-> "none", arg |-> "", item |-> NoItem,
   delta |-> NoDelta, appended |-> <<>>, result |-> [kind |-> "none"]]

\* A call begun by p: p is between calls and the budget of calls is not used up.
CanCall(p) == call[p].pc \in {"idle", "done"} /\ calls < MaxCalls

Init ==
  /\ menu = SeedMenu
  /\ orders \in StoredOrders
  /\ startOrders = orders
  /\ call = [p \in Procs |-> Idle]
  /\ calls = 0

\* check_menu(query), whole: one find and the rendering of its documents.
CheckMenu(p, query) ==
  /\ call[p].pc \in {"idle", "done"}
  /\ call' = [call EXCEPT ![p] =
       [Idle EXCEPT !.pc = "done", !.op = "check_menu", !.arg = query,
                    !.result = CheckMenuResponse(menu, query)]]
  /\ calls' = calls + 1
  /\ UNCHANGED <<menu, orders, startOrders>>

\* place_order(item_name) up to its update_one: find_one and the two checks.
PlaceOrderFind(p, item_name) ==
  /\ call[p].pc \in {"idle", "done"}
  /\ LET item == FindOne(menu, item_name)
         c == [Idle EXCEPT !.op = "place_order", !.arg = item_name, !.item = item]
     IN call' = [call EXCEPT ![p] =
          IF item = NoItem
          THEN [c EXCEPT !.pc = "done", !.result = NotOnMenuMsg(item_name)]
          ELSE IF OutOfStock(item)
          THEN [c EXCEPT !.pc = "done", !.result = OutOfStockMsg(item)]
          ELSE [c EXCEPT !.pc = "update"]]
  /\ calls' = calls + 1
  /\ UNCHANGED <<menu, orders, startOrders>>

\* place_order: update_one.
PlaceOrderUpdate(p) ==
  /\ call[p].pc = "update"
  /\ menu' = IncStock(menu, call[p].item.id)
  /\ call' = [call EXCEPT ![p].pc = "insert",
                          ![p].delta = [i \in Ids |-> @[i] + menu'[i].stock - menu[i].stock]]
  /\ UNCHANGED <<orders, calls, startOrders>>

\* place_order: insert_one and the return.
PlaceOrderInsert(p) ==
  /\ call[p].pc = "insert"
  /\ orders' = InsertOne(orders, NewOrder(call[p].item))
  /\ call' = [call EXCEPT ![p].pc = "done",
                          ![p].appended = @ \o SubSeq(orders', Len(orders) + 1, Len(orders')),
                          ![p].result = SuccessMsg(call[p].item)]
  /\ UNCHANGED <<menu, calls, startOrders>>

\* find_one raises (the store is unavailable): the call ends with the exception.
FindOneFails(p, item_name) ==
  /\ call[p].pc \in {"idle", "done"}
  /\ call' = [call EXCEPT ![p] =
       [Idle EXCEPT !.pc = "done", !.op = "place_order", !.arg = item_name,
                    !.result = Raised]]
  /\ calls' = calls + 1
  /\ UNCHANGED <<menu, orders, startOrders>>

\* update_one raises: nothing is written and the call ends with the exception.
UpdateOneFails(p) ==
  /\ call[p].pc = "update"
  /\ call' = [call EXCEPT ![p].pc = "done", ![p].result = Raised]
  /\ UNCHANGED <<menu, orders, calls, startOrders>>

\* insert_one raises: nothing is inserted, the call ends with the exception and
\* nothing undoes the update_one before it.
InsertOneFails(p) ==
  /\ call[p].pc = "insert"
  /\ call' = [call EXCEPT ![p].pc = "done", ![p].result = Raised]
  /\ UNCHANGED <<menu, orders, calls, startOrders>>

----------------------------------------------------------------------------
(* Inputs *)

\* The queries given to check_menu.
Queries == {"", "Menu", "vegan", "salad", "GLUTEN", "Pizza", "."}

\* The item names given to place_order.
Names == {"fruit platter", "Vegan Buddha Bowl", "Caesar Salad", "Fruit", "Pizza",
          "Fruit.Platter"}

----------------------------------------------------------------------------
(* Specifications *)

\* Sessions calling the two tools, each session one call after the other.
Next ==
  \E p \in Procs :
    \/ \E q \in Queries : CanCall(p) /\ CheckMenu(p, q)
    \/ \E n \in Names : CanCall(p) /\ PlaceOrderFind(p, n)
    \/ PlaceOrderUpdate(p)
    \/ PlaceOrderInsert(p)

Spec == Init /\ [][Next]_vars

\* The same, with store operations of place_order that may raise.
NextFail ==
  \E p \in Procs :
    \/ \E q \in Queries : CanCall(p) /\ CheckMenu(p, q)
    \/ \E n \in Names : CanCall(p) /\ PlaceOrderFind(p, n)
    \/ PlaceOrderUpdate(p)
    \/ PlaceOrderInsert(p)
    \/ \E n \in Names : CanCall(p) /\ FindOneFails(p, n)
    \/ UpdateOneFails(p)
    \/ InsertOneFails(p)

SpecFail == Init /\ [][NextFail]_vars

\* One session places up to MaxWarmup orders for the Vegan Buddha Bowl, one after
\* the other; then NumRacers sessions place one order each for it, concurrently.
Warmup == NumRacers + 1

InitRace ==
  /\ menu = SeedMenu
  /\ orders \in StoredOrders
  /\ startOrders = orders
  /\ call = [p \in {Warmup} \cup Racers |-> Idle]
  /\ calls = 0

\* The racers that have begun their call.
Started == {p \in Racers : call[p].pc # "idle"}

\* The calls the warm-up session has begun.
WarmupCalls == calls - Cardinality(Started)

NextRace ==
  \/ /\ Started = {}
     /\ WarmupCalls < MaxWarmup
     /\ PlaceOrderFind(Warmup, "Vegan Buddha Bowl")
  \/ PlaceOrderUpdate(Warmup)
  \/ PlaceOrderInsert(Warmup)
  \/ \E p \in Racers :
       \/ /\ call[Warmup].pc \in {"idle", "done"}
          /\ call[p].pc = "idle"
          /\ PlaceOrderFind(p, "Vegan Buddha Bowl")
       \/ PlaceOrderUpdate(p)
       \/ PlaceOrderInsert(p)

SpecRace == InitRace /\ [][NextRace]_vars

----------------------------------------------------------------------------
(* Properties *)

\* The place_order calls that have returned a text.
Returned(c) == c.op = "place_order" /\ c.pc = "done" /\ c.result.kind # "raised"

\* The ids of the menu items whose name is the text, compared case-insensitively
\* over the whole string.
NamedBy(name) == {i \in Ids : LowerStr(Chars[menu[i].item]) = LowerStr(Chars[name])}

\* The call changed no stock and appended no order.
NoEffect(c) == c.delta = NoDelta /\ c.appended = <<>>

\* The number of orders of a sequence that are for the item.
RECURSIVE CountFor(_, _)
CountFor(o, name) ==
  IF o = <<>> THEN 0
  ELSE (IF o[1].item = name THEN 1 ELSE 0) + CountFor(Tail(o), name)

\* No place_order call is in flight.
Quiescent == \A p \in DOMAIN call : call[p].pc \in {"idle", "done"}

\* The stock the concurrent calls of SpecRace start from.
RaceStock ==
  IF WarmupCalls > SeedMenu[2].stock THEN 0 ELSE SeedMenu[2].stock - WarmupCalls

\* C1: once NumRacers concurrent place_order calls for one item of stock k < NumRacers
\* have all returned, exactly k returned success, the others the out-of-stock
\* message, the stock is 0 and exactly k orders were appended.
C1_RaceOutcome ==
  ((\A p \in Racers : call[p].pc = "done") /\ RaceStock < NumRacers) =>
    /\ Cardinality({p \in Racers : call[p].result.kind = "success"}) = RaceStock
    /\ Cardinality({p \in Racers : call[p].result.kind = "out_of_stock"})
         = NumRacers - RaceStock
    /\ menu[2].stock = 0
    /\ Len(orders) - Len(startOrders) - (SeedMenu[2].stock - RaceStock) = RaceStock

\* C2: the stock of every menu item is >= 0 in every reachable state.
C2_StockNonNegative == \A i \in Ids : menu[i].stock >= 0

\* C3: a place_order call that returned success for a name that is a menu item's
\* name, case-insensitively, decremented that item's stock by exactly 1, changed
\* no other stock, and appended exactly one order with that item's name and price.
C3_SuccessEffect ==
  \A p \in DOMAIN call : \A i \in NamedBy(call[p].arg) :
    (Returned(call[p]) /\ call[p].result.kind = "success") =>
      /\ call[p].delta = [j \in Ids |-> IF j = i THEN -1 ELSE 0]
      /\ Len(call[p].appended) = 1
      /\ call[p].appended[1].item = menu[i].item
      /\ call[p].appended[1].price = menu[i].price

C3_Witness ==
  \E p \in DOMAIN call :
    /\ Returned(call[p]) /\ call[p].result.kind = "success"
    /\ call[p].arg = "fruit platter"
    /\ menu[4].stock = 19

\* C4: a place_order call for an existing menu item whose stock is 0 returns the
\* out-of-stock message and changes neither a stock nor the orders collection.
C4_OutOfStockNoEffect ==
  [][\A p \in DOMAIN call : \A i \in NamedBy(call'[p].arg) :
       (call'[p] # call[p] /\ call[p].pc \in {"idle", "done"}
          /\ call'[p].op = "place_order" /\ menu[i].stock = 0) =>
         /\ call'[p].pc = "done"
         /\ call'[p].result = OutOfStockMsg(menu[i])
         /\ menu' = menu /\ orders' = orders]_vars

C4_Witness ==
  \E p \in DOMAIN call :
    /\ Returned(call[p]) /\ call[p].arg = "Caesar Salad"
    /\ call[p].result.kind = "out_of_stock"
    /\ menu[3].stock = 0

\* C5: a place_order call with a name that is no menu item's name, compared
\* case-insensitively over the whole string, returns the not-on-the-menu error and
\* changes neither a stock nor the orders collection.
C5_UnknownNameRejected ==
  \A p \in DOMAIN call :
    (call[p].op = "place_order" /\ NamedBy(call[p].arg) = {}) =>
      /\ call[p].pc = "done"
      /\ call[p].result = NotOnMenuMsg(call[p].arg)
      /\ NoEffect(call[p])

\* C6: no place_order call has ended with a stock decremented by it and no order
\* appended by it.
C6_AllOrNothing ==
  \A p \in DOMAIN call :
    (call[p].op = "place_order" /\ call[p].pc = "done") =>
      ~(call[p].delta # NoDelta /\ call[p].appended = <<>>)

\* The query occurs in the text as a substring, case-insensitively.
SubstringOf(query, text) ==
  \E at \in 1..(Len(text) + 1) :
    /\ at + Len(query) - 1 <= Len(text)
    /\ \A i \in 1..Len(query) : LowerChar(query[i]) = LowerChar(text[at + i - 1])

\* The items the claim selects for a query.
Selected(query) ==
  IF query = "" \/ LowerStr(Chars[query]) = Chars["menu"] THEN Ids
  ELSE {i \in Ids :
          \/ SubstringOf(Chars[query], Chars[menu[i].item])
          \/ \E t \in 1..Len(menu[i].tags) :
               SubstringOf(Chars[query], Chars[menu[i].tags[t]])}

\* C7: check_menu returns one line for every item when the query is empty or
\* "menu"; otherwise one line for exactly the items whose name or one of whose tags
\* contains the query as a case-insensitive substring, and the sentinel when there
\* is none.
C7_SubstringSearch ==
  \A p \in DOMAIN call :
    (call[p].op = "check_menu" /\ call[p].pc = "done") =>
      IF Selected(call[p].arg) = {}
      THEN call[p].result.kind = "text"
      ELSE /\ call[p].result.kind = "lines"
           /\ Len(call[p].result.lines) = Cardinality(Selected(call[p].arg))
           /\ {call[p].result.lines[k].item : k \in 1..Len(call[p].result.lines)}
                = {menu[i].item : i \in Selected(call[p].arg)}

\* C8: a place_order call that returned a text returned one beginning with
\* "SUCCESS:" exactly when it decremented a stock and appended an order, and a call
\* that returned another text changed neither a stock nor the orders collection.
C8_SuccessPrefix ==
  \A p \in DOMAIN call :
    Returned(call[p]) =>
      /\ (call[p].result.prefix = "SUCCESS:") <=>
           ((\E i \in Ids : call[p].delta[i] < 0) /\ call[p].appended # <<>>)
      /\ (call[p].result.prefix # "SUCCESS:") => NoEffect(call[p])

C8_Witness ==
  \E p, q \in DOMAIN call :
    /\ Returned(call[p]) /\ call[p].result.prefix = "SUCCESS:"
    /\ Returned(call[q]) /\ call[q].result.kind = "not_on_menu"

\* C9: check_menu renders every item of its result whose stock is 0 as
\* OUT OF STOCK, and changes neither a stock nor the orders collection.
C9_OutOfStockRendered ==
  [][\A p \in DOMAIN call :
       (call'[p] # call[p] /\ call'[p].op = "check_menu") =>
         /\ menu' = menu /\ orders' = orders
         /\ call'[p].result.kind = "lines" =>
              \A k \in 1..Len(call'[p].result.lines) : \A i \in Ids :
                (menu[i].item = call'[p].result.lines[k].item /\ menu[i].stock = 0) =>
                  call'[p].result.lines[k].status = <<"OUT OF STOCK">>]_vars

C9_Witness ==
  \E p \in DOMAIN call :
    /\ call[p].op = "check_menu" /\ call[p].arg = "salad"
    /\ call[p].result.kind = "lines"
    /\ \E k \in 1..Len(call[p].result.lines) :
         /\ call[p].result.lines[k].item = "Caesar Salad"
         /\ call[p].result.lines[k].status = <<"OUT OF STOCK">>

\* C10 as stated: whenever no place_order call is in flight, the orders collection
\* holds, for every item, as many orders as its initial stock minus its stock; and
\* no stock increases.
C10_Original ==
  [][/\ Quiescent' =>
          \A i \in Ids :
            CountFor(orders', menu'[i].item) = SeedMenu[i].stock - menu'[i].stock
     /\ \A i \in Ids : menu'[i].stock <= menu[i].stock]_vars

\* C10, amended: whenever no place_order call is in flight, the orders appended
\* since start-up hold, for every item, as many orders as its initial stock minus
\* its stock; and no stock increases.
C10_Conservation ==
  [][/\ Quiescent' =>
          \A i \in Ids :
            CountFor(SubSeq(orders', Len(startOrders) + 1, Len(orders')), menu'[i].item)
              = SeedMenu[i].stock - menu'[i].stock
     /\ \A i \in Ids : menu'[i].stock <= menu[i].stock]_vars

C10_Witness ==
  /\ Quiescent
  /\ startOrders # <<>>
  /\ Len(orders) = Len(startOrders) + 2
  /\ menu[2].stock = SeedMenu[2].stock - 1
  /\ menu[4].stock = SeedMenu[4].stock - 1

====
